---- MODULE Spec2Model ----
(***************************************************************************)
(* Model of src/app/page.tsx: the FreelancerInvoiceTracker component.      *)
(*                                                                         *)
(* The component's state is the five useState cells; the event handlers    *)
(* run to completion (React flushes a discrete event before the next one   *)
(* is delivered), except handleGenerateReport, which suspends at           *)
(* `await fetch(...)` and at `await aiResponse.json()`.  Each suspended    *)
(* invocation of handleGenerateReport is an entry of `requests`.           *)
(*                                                                         *)
(* Two specifications are given:                                           *)
(*   Spec    the handlers invoked with any catalog argument in any state   *)
(*           (the handlers as functions, as a unit test would call them);  *)
(*   SpecUI  only the controls the JSX renders and enables in the current  *)
(*           state can be clicked.                                         *)
(***************************************************************************)
EXTENDS Integers, Sequences, FiniteSets, TLC

VARIABLES
    selectedFeatures,   \* useState<Feature[]>([])                 line 18
    error,              \* useState<string | null>(null)           line 19
    isLoading,          \* useState(false), never read             line 20
    report,             \* useState('')                            line 21
    stage,              \* useState<'input'|'loading'|'report'>    line 22
    requests,           \* suspended handleGenerateReport invocations
    issued,             \* number of fetch() calls made so far
    accepted,           \* number of generate invocations that passed line 43
    clicks,             \* number of user events delivered so far
    last                \* the handler or continuation that ran last, with
                        \* its argument and what it met

vars == <<selectedFeatures, error, isLoading, report, stage,
          requests, issued, accepted, clicks, last>>

(***************************************************************************)
(* Bounds of the model.                                                    *)
(***************************************************************************)
\* handleGenerateReport passes its validation at most this many times.
MaxRequests == 2

\* The user delivers at most this many events (clicks) to the page.
MaxClicks == 6

(***************************************************************************)
(* Program constants.                                                      *)
(***************************************************************************)
\* The limit tested by `selectedFeatures.length >= 3`.
MaxFeatures == 3

\* `string | null`: the null of line 19, distinct from every string.
Null == "<null>"

MsgMaximum   == "Maximum 3 features allowed"
MsgDuplicate == "Feature already selected"
MsgEmpty     == "Please select at least one feature"
MsgFailed    == "Failed to generate report. Please try again."

\* The catalog after `.sort((a, b) => a.name.localeCompare(b.name))`.
FEATURES ==
    << [symbol |-> "AutoReminders", name |-> "Automated Payment Reminders"],
       [symbol |-> "InvoiceGen",    name |-> "Generate Professional Invoices"],
       [symbol |-> "Dashboard",     name |-> "Income & Overdue Summary"],
       [symbol |-> "Integrations",  name |-> "Payment Platform Integrations"],
       [symbol |-> "TrackPayments", name |-> "Track Payment Status"] >>

Catalog == { FEATURES[i] : i \in 1..Len(FEATURES) }

Symbols == { f.symbol : f \in Catalog }

\* The texts a successful response body can parse to.
ReportTexts == { "Report text", "Another report" }

Stages == { "input", "loading", "report" }

(***************************************************************************)
(* Array helpers used by the handlers.                                     *)
(***************************************************************************)
\* selectedFeatures.some(f => f.symbol === symbol)
HasSymbol(sel, symbol) ==
    \E i \in 1..Len(sel) : sel[i].symbol = symbol

\* Faulty variant of FilterOut: `===` for `!==`, the matching entries kept.
FilterOutKeepsMatch(sel, symbol) ==
    SelectSeq(sel, LAMBDA f : f.symbol = symbol)

\* selectedFeatures.filter(f => f.symbol !== symbol)
RECURSIVE FilterOut(_, _)
FilterOut(sel, symbol) ==
    IF sel = << >> THEN << >>
    ELSE IF Head(sel).symbol # symbol
         THEN <<Head(sel)>> \o FilterOut(Tail(sel), symbol)
         ELSE FilterOut(Tail(sel), symbol)

\* Faulty variant of FeaturesList: the items joined last to first.
RECURSIVE FeaturesListReversed(_)
FeaturesListReversed(sel) ==
    IF sel = << >> THEN ""
    ELSE LET item == Head(sel).name \o " (" \o Head(sel).symbol \o ")"
         IN  IF Tail(sel) = << >> THEN item
             ELSE FeaturesListReversed(Tail(sel)) \o ", " \o item

\* selectedFeatures.map(f => `${f.name} (${f.symbol})`).join(', ')
RECURSIVE FeaturesList(_)
FeaturesList(sel) ==
    IF sel = << >> THEN ""
    ELSE LET item == Head(sel).name \o " (" \o Head(sel).symbol \o ")"
         IN  IF Tail(sel) = << >> THEN item
             ELSE item \o ", " \o FeaturesList(Tail(sel))

\* The template literal of line 53, before and after ${featuresList}.
PromptHead ==
    "You are a SaaS strategist. Analyze the following features for a Freelancer Invoice Tracker: "

PromptTail ==
    ".\n\nProvide a comprehensive report including:\n1. Benefits of these features with practical use cases.\n2. Actionable strategies for implementation and user engagement.\n3. Challenges freelancers face and how these features resolve them.\n4. Suggestions for scaling the tool effectively."

Prompt(sel) == PromptHead \o FeaturesList(sel) \o PromptTail

TypeOK ==
    /\ selectedFeatures \in Seq(Catalog)
    /\ error \in {Null, "", MsgMaximum, MsgDuplicate, MsgEmpty, MsgFailed}
    /\ isLoading \in BOOLEAN
    /\ report \in {""} \cup ReportTexts
    /\ stage \in Stages
    /\ issued \in 0..MaxRequests
    /\ accepted \in 0..MaxRequests
    /\ clicks \in 0..MaxClicks
    /\ \A r \in requests :
          /\ r.id \in 1..issued
          /\ r.phase \in {"fetch", "json"}

Init ==
    /\ selectedFeatures = << >>
    /\ error = Null
    /\ isLoading = FALSE
    /\ report = ""
    /\ stage = "input"
    /\ requests = {}
    /\ issued = 0
    /\ accepted = 0
    /\ clicks = 0
    /\ last = [op |-> "init"]

(***************************************************************************)
(* Faulty variants of handleFeatureSelect.                                 *)
(***************************************************************************)
\* The limit tested with `>` instead of `>=`.
handleFeatureSelectOffByOne(feature) ==
    /\ IF Len(selectedFeatures) > MaxFeatures
       THEN /\ error' = MsgMaximum
            /\ UNCHANGED selectedFeatures
       ELSE IF HasSymbol(selectedFeatures, feature.symbol)
       THEN /\ error' = MsgDuplicate
            /\ UNCHANGED selectedFeatures
       ELSE /\ selectedFeatures' = Append(selectedFeatures, feature)
            /\ error' = ""
    /\ last' = [op |-> "select", symbol |-> feature.symbol,
                reselect |-> last.op = "remove" /\ last.symbol = feature.symbol]
    /\ UNCHANGED <<isLoading, report, stage, requests, issued, accepted>>

\* The `return` of line 27 missing: the limit branch falls through.
handleFeatureSelectNoReturn(feature) ==
    /\ IF HasSymbol(selectedFeatures, feature.symbol)
       THEN /\ error' = MsgDuplicate
            /\ UNCHANGED selectedFeatures
       ELSE /\ selectedFeatures' = Append(selectedFeatures, feature)
            /\ error' = ""
    /\ last' = [op |-> "select", symbol |-> feature.symbol,
                reselect |-> last.op = "remove" /\ last.symbol = feature.symbol]
    /\ UNCHANGED <<isLoading, report, stage, requests, issued, accepted>>

\* The duplicate test of lines 29-32 missing.
handleFeatureSelectNoDupCheck(feature) ==
    /\ IF Len(selectedFeatures) >= MaxFeatures
       THEN /\ error' = MsgMaximum
            /\ UNCHANGED selectedFeatures
       ELSE /\ selectedFeatures' = Append(selectedFeatures, feature)
            /\ error' = ""
    /\ last' = [op |-> "select", symbol |-> feature.symbol,
                reselect |-> last.op = "remove" /\ last.symbol = feature.symbol]
    /\ UNCHANGED <<isLoading, report, stage, requests, issued, accepted>>

\* `[feature, ...selectedFeatures]` for `[...selectedFeatures, feature]`.
handleFeatureSelectPrepends(feature) ==
    /\ IF Len(selectedFeatures) >= MaxFeatures
       THEN /\ error' = MsgMaximum
            /\ UNCHANGED selectedFeatures
       ELSE IF HasSymbol(selectedFeatures, feature.symbol)
       THEN /\ error' = MsgDuplicate
            /\ UNCHANGED selectedFeatures
       ELSE /\ selectedFeatures' = <<feature>> \o selectedFeatures
            /\ error' = ""
    /\ last' = [op |-> "select", symbol |-> feature.symbol,
                reselect |-> last.op = "remove" /\ last.symbol = feature.symbol]
    /\ UNCHANGED <<isLoading, report, stage, requests, issued, accepted>>

(***************************************************************************)
(* handleFeatureSelect, lines 24-35.                                       *)
(***************************************************************************)
handleFeatureSelect(feature) ==
    /\ IF Len(selectedFeatures) >= MaxFeatures
       THEN /\ error' = MsgMaximum
            /\ UNCHANGED selectedFeatures
       ELSE IF HasSymbol(selectedFeatures, feature.symbol)
       THEN /\ error' = MsgDuplicate
            /\ UNCHANGED selectedFeatures
       ELSE /\ selectedFeatures' = Append(selectedFeatures, feature)
            /\ error' = ""
    /\ last' = [op |-> "select", symbol |-> feature.symbol,
                reselect |-> last.op = "remove" /\ last.symbol = feature.symbol]
    /\ UNCHANGED <<isLoading, report, stage, requests, issued, accepted>>

(***************************************************************************)
(* Faulty variant of handleRemoveFeature: `setError('')` of line 39        *)
(* missing.                                                                *)
(***************************************************************************)
handleRemoveFeatureKeepsError(symbol) ==
    /\ selectedFeatures' = FilterOut(selectedFeatures, symbol)
    /\ last' = [op |-> "remove", symbol |-> symbol,
                found |-> HasSymbol(selectedFeatures, symbol)]
    /\ UNCHANGED <<error, isLoading, report, stage, requests, issued, accepted>>

(***************************************************************************)
(* handleRemoveFeature, lines 37-40.                                       *)
(***************************************************************************)
handleRemoveFeature(symbol) ==
    /\ selectedFeatures' = FilterOut(selectedFeatures, symbol)
    /\ error' = ""
    /\ last' = [op |-> "remove", symbol |-> symbol,
                found |-> HasSymbol(selectedFeatures, symbol)]
    /\ UNCHANGED <<isLoading, report, stage, requests, issued, accepted>>

(***************************************************************************)
(* Faulty variant of handleGenerateReport: the test of lines 43-46 missing.*)
(***************************************************************************)
handleGenerateReportNoEmptyCheck ==
    /\ accepted < MaxRequests
    /\ accepted' = accepted + 1
    /\ stage' = "loading"
    /\ isLoading' = TRUE
    /\ issued' = issued + 1
    /\ requests' = requests \cup
           { [id       |-> issued + 1,
              features |-> selectedFeatures,
              prompt   |-> Prompt(selectedFeatures),
              phase    |-> "fetch"] }
    /\ last' = [op |-> "generate", accepted |-> TRUE]
    /\ UNCHANGED <<selectedFeatures, error, report>>

\* Faulty variants of handleGenerateReport: an accepted generate also runs
\* setReport(''), or setError('').
handleGenerateReportClearsReport ==
    IF Len(selectedFeatures) = 0
    THEN /\ error' = MsgEmpty
         /\ last' = [op |-> "generate", accepted |-> FALSE]
         /\ UNCHANGED <<selectedFeatures, isLoading, report, stage,
                        requests, issued, accepted>>
    ELSE /\ accepted < MaxRequests
         /\ accepted' = accepted + 1
         /\ stage' = "loading"
         /\ isLoading' = TRUE
         /\ report' = ""
         /\ issued' = issued + 1
         /\ requests' = requests \cup
                { [id       |-> issued + 1,
                   features |-> selectedFeatures,
                   prompt   |-> Prompt(selectedFeatures),
                   phase    |-> "fetch"] }
         /\ last' = [op |-> "generate", accepted |-> TRUE]
         /\ UNCHANGED <<selectedFeatures, error>>

handleGenerateReportClearsError ==
    IF Len(selectedFeatures) = 0
    THEN /\ error' = MsgEmpty
         /\ last' = [op |-> "generate", accepted |-> FALSE]
         /\ UNCHANGED <<selectedFeatures, isLoading, report, stage,
                        requests, issued, accepted>>
    ELSE /\ accepted < MaxRequests
         /\ accepted' = accepted + 1
         /\ stage' = "loading"
         /\ isLoading' = TRUE
         /\ error' = ""
         /\ issued' = issued + 1
         /\ requests' = requests \cup
                { [id       |-> issued + 1,
                   features |-> selectedFeatures,
                   prompt   |-> Prompt(selectedFeatures),
                   phase    |-> "fetch"] }
         /\ last' = [op |-> "generate", accepted |-> TRUE]
         /\ UNCHANGED <<selectedFeatures, report>>

(***************************************************************************)
(* handleGenerateReport up to its first await, lines 42-61.                *)
(***************************************************************************)
handleGenerateReport ==
    IF Len(selectedFeatures) = 0
    THEN /\ error' = MsgEmpty
         /\ last' = [op |-> "generate", accepted |-> FALSE]
         /\ UNCHANGED <<selectedFeatures, isLoading, report, stage,
                        requests, issued, accepted>>
    ELSE /\ accepted < MaxRequests
         /\ accepted' = accepted + 1
         /\ stage' = "loading"
         /\ isLoading' = TRUE
         /\ issued' = issued + 1
         /\ requests' = requests \cup
                { [id       |-> issued + 1,
                   features |-> selectedFeatures,
                   prompt   |-> Prompt(selectedFeatures),
                   phase    |-> "fetch"] }
         /\ last' = [op |-> "generate", accepted |-> TRUE]
         /\ UNCHANGED <<selectedFeatures, error, report>>

(***************************************************************************)
(* Faulty variants of the catch block.                                     *)
(***************************************************************************)
\* `setStage('input')` of line 72 missing.
CatchFinallyKeepsStage(r) ==
    /\ error' = MsgFailed
    /\ isLoading' = FALSE
    /\ requests' = requests \ {r}
    /\ UNCHANGED <<selectedFeatures, report, stage, issued, accepted>>

\* The catch block sends the request again.
CatchFinallyRetry(r) ==
    /\ error' = MsgFailed
    /\ stage' = "input"
    /\ isLoading' = FALSE
    /\ issued' = issued + 1
    /\ requests' = (requests \ {r}) \cup
           { [r EXCEPT !.id = issued + 1, !.phase = "fetch"] }
    /\ UNCHANGED <<selectedFeatures, report, accepted>>

(***************************************************************************)
(* The catch and finally blocks, lines 70-75, ending invocation r.         *)
(***************************************************************************)
CatchFinally(r) ==
    /\ error' = MsgFailed
    /\ stage' = "input"
    /\ isLoading' = FALSE
    /\ requests' = requests \ {r}
    /\ UNCHANGED <<selectedFeatures, report, issued, accepted>>

\* `await fetch(...)` throws: a transport error.
FetchRejects(r) ==
    /\ r \in requests
    /\ r.phase = "fetch"
    /\ CatchFinally(r)
    /\ last' = [op |-> "fetchRejects", id |-> r.id]

\* Faulty variant of FetchResponds: on a non-ok status the handler returns
\* instead of throwing, so the catch block does not run.
FetchRespondsSwallowsError(r, ok) ==
    /\ r \in requests
    /\ r.phase = "fetch"
    /\ IF ~ok
       THEN /\ requests' = requests \ {r}
            /\ isLoading' = FALSE
            /\ UNCHANGED <<selectedFeatures, error, report, stage,
                           issued, accepted>>
       ELSE /\ requests' = (requests \ {r}) \cup {[r EXCEPT !.phase = "json"]}
            /\ UNCHANGED <<selectedFeatures, error, isLoading, report, stage,
                           issued, accepted>>
    /\ last' = [op |-> "fetchResponds", id |-> r.id, ok |-> ok]

\* `await fetch(...)` yields a response; lines 63-67.
FetchResponds(r, ok) ==
    /\ r \in requests
    /\ r.phase = "fetch"
    /\ IF ~ok
       THEN CatchFinally(r)
       ELSE /\ requests' = (requests \ {r}) \cup {[r EXCEPT !.phase = "json"]}
            /\ UNCHANGED <<selectedFeatures, error, isLoading, report, stage,
                           issued, accepted>>
    /\ last' = [op |-> "fetchResponds", id |-> r.id, ok |-> ok]

\* `await aiResponse.json()` throws: the body is not JSON.
JsonRejects(r) ==
    /\ r \in requests
    /\ r.phase = "json"
    /\ CatchFinally(r)
    /\ last' = [op |-> "jsonRejects", id |-> r.id]

\* Faulty variant of JsonResolves: `setReport(reportData)` of line 68 missing.
JsonResolvesKeepsReport(r, reportData) ==
    /\ r \in requests
    /\ r.phase = "json"
    /\ stage' = "report"
    /\ isLoading' = FALSE
    /\ requests' = requests \ {r}
    /\ last' = [op |-> "jsonResolves", id |-> r.id, text |-> reportData]
    /\ UNCHANGED <<selectedFeatures, error, report, issued, accepted>>

\* `await aiResponse.json()` yields reportData; lines 67-69 and 73-75.
JsonResolves(r, reportData) ==
    /\ r \in requests
    /\ r.phase = "json"
    /\ report' = reportData
    /\ stage' = "report"
    /\ isLoading' = FALSE
    /\ requests' = requests \ {r}
    /\ last' = [op |-> "jsonResolves", id |-> r.id, text |-> reportData]
    /\ UNCHANGED <<selectedFeatures, error, issued, accepted>>

(***************************************************************************)
(* Faulty variant of the "Try Another Selection" handler: it also resets   *)
(* the selection.                                                          *)
(***************************************************************************)
TryAnotherSelectionResets ==
    /\ stage = "report"
    /\ stage' = "input"
    /\ selectedFeatures' = << >>
    /\ last' = [op |-> "tryAnother"]
    /\ UNCHANGED <<error, isLoading, report, requests, issued, accepted>>

(***************************************************************************)
(* Faulty variant of the "Try Another Selection" button: rendered outside  *)
(* the `stage === 'report'` test, as the Generate Insights button is.      *)
(***************************************************************************)
TryAnotherSelectionAnyStage ==
    /\ stage' = "input"
    /\ last' = [op |-> "tryAnother"]
    /\ UNCHANGED <<selectedFeatures, error, isLoading, report,
                   requests, issued, accepted>>

(***************************************************************************)
(* The "Try Another Selection" button, lines 158-169: the inline handler   *)
(* `() => setStage('input')` exists only while stage === 'report'.         *)
(***************************************************************************)
TryAnotherSelection ==
    /\ stage = "report"
    /\ stage' = "input"
    /\ last' = [op |-> "tryAnother"]
    /\ UNCHANGED <<selectedFeatures, error, isLoading, report,
                   requests, issued, accepted>>

(***************************************************************************)
(* One user event is delivered to an onClick handler; a continuation of a  *)
(* suspended handleGenerateReport is not a user event.                     *)
(***************************************************************************)
UserEvent == clicks < MaxClicks /\ clicks' = clicks + 1

(***************************************************************************)
(* The continuations of the suspended invocations.                         *)
(***************************************************************************)
TransportError ==
    /\ \E r \in requests : FetchRejects(r)
    /\ UNCHANGED clicks

HttpResponse ==
    /\ \E r \in requests, ok \in BOOLEAN : FetchResponds(r, ok)
    /\ UNCHANGED clicks

BodyMalformed ==
    /\ \E r \in requests : JsonRejects(r)
    /\ UNCHANGED clicks

BodyParsed ==
    /\ \E r \in requests, t \in ReportTexts : JsonResolves(r, t)
    /\ UNCHANGED clicks

(***************************************************************************)
(* Spec: the handlers as functions, called with any catalog argument in    *)
(* any state.                                                              *)
(***************************************************************************)
Select == UserEvent /\ \E f \in Catalog : handleFeatureSelect(f)

Remove == UserEvent /\ \E s \in Symbols : handleRemoveFeature(s)

Generate == UserEvent /\ handleGenerateReport

TryAnother == UserEvent /\ TryAnotherSelection

Next ==
    \/ Select
    \/ Remove
    \/ Generate
    \/ TryAnother
    \/ TransportError
    \/ HttpResponse
    \/ BodyMalformed
    \/ BodyParsed

Spec == Init /\ [][Next]_vars

(***************************************************************************)
(* SpecUI: only what the JSX renders and enables.                          *)
(***************************************************************************)
\* Lines 91-97: a tile is rendered in stage input and disabled once its
\* symbol is selected.
TileEnabled(feature) ==
    /\ stage = "input"
    /\ ~HasSymbol(selectedFeatures, feature.symbol)

\* Lines 91-109: tiles exist in stage input, disabled once selected.
ClickFeatureTile ==
    /\ UserEvent
    /\ \E f \in Catalog :
          /\ TileEnabled(f)
          /\ handleFeatureSelect(f)

\* Lines 111-131: one chip per selected feature, in every stage.
ClickRemoveChip ==
    /\ UserEvent
    /\ \E i \in 1..Len(selectedFeatures) :
          handleRemoveFeature(selectedFeatures[i].symbol)

\* Faulty variant of ClickGenerate: the `disabled` attribute of line 141
\* missing.
ClickGenerateNeverDisabled ==
    /\ UserEvent
    /\ handleGenerateReport

\* Lines 139-149: rendered in every stage, disabled while nothing is selected.
ClickGenerate ==
    /\ UserEvent
    /\ ~(Len(selectedFeatures) = 0)
    /\ handleGenerateReport

\* Lines 158-169: rendered in stage report.
ClickTryAnother == UserEvent /\ TryAnotherSelection

NextUI ==
    \/ ClickFeatureTile
    \/ ClickRemoveChip
    \/ ClickGenerate
    \/ ClickTryAnother
    \/ TransportError
    \/ HttpResponse
    \/ BodyMalformed
    \/ BodyParsed

SpecUI == Init /\ [][NextUI]_vars

(***************************************************************************)
(* SpecUIFair: SpecUI where every await eventually settles: a pending      *)
(* fetch() resolves or rejects, a pending json() resolves or rejects.      *)
(***************************************************************************)
FetchSettles == TransportError \/ HttpResponse

JsonSettles == BodyMalformed \/ BodyParsed

SpecUIFair ==
    /\ SpecUI
    /\ WF_vars(FetchSettles)
    /\ WF_vars(JsonSettles)

(***************************************************************************)
(* Properties.                                                             *)
(***************************************************************************)
\* The symbols of a selection, read off the sequence itself.
SymbolsOf(sel) == { sel[i].symbol : i \in DOMAIN sel }

NoDuplicateSymbols(sel) ==
    \A i, j \in DOMAIN sel : i # j => sel[i].symbol # sel[j].symbol

\* The invocations in flight, by the number of their fetch() call.
IdsOf(rs) == { r.id : r \in rs }

FailureOps == { "fetchRejects", "fetchResponds", "jsonRejects" }

\* The step is a failing resolution of invocation r.
FailsAt(r) == FetchRejects(r) \/ FetchResponds(r, FALSE) \/ JsonRejects(r)

\* C1: in every reachable state the selection has at most 3 entries and no
\* two entries share a symbol, whatever sequence of select, remove, generate,
\* resolution and try-another steps led there.
C1_SelectionBounded ==
    /\ Len(selectedFeatures) <= 3
    /\ NoDuplicateSymbols(selectedFeatures)

\* A third feature was just selected, after a report had come back.
C1_Witness ==
    /\ last.op = "select"
    /\ Len(selectedFeatures) = 3
    /\ selectedFeatures[3].symbol = last.symbol
    /\ report # ""

\* C2 (as claimed): at most one outbound request is in flight in every
\* reachable state of the rendered UI.
C2_AtMostOneInFlight == Cardinality(requests) <= 1

\* C3 (as claimed): the stage starts at input and every change of stage is
\* one of: input to loading by an accepted generate, loading to report by a
\* successful resolution, loading to input by a failed resolution, report to
\* input by try-another-selection.
C3_OnlyFourTransitions ==
    /\ stage = "input"
    /\ [][stage' # stage =>
            \/ stage = "input" /\ stage' = "loading" /\ last'.op = "generate"
            \/ stage = "loading" /\ stage' = "report" /\ last'.op = "jsonResolves"
            \/ stage = "loading" /\ stage' = "input" /\ last'.op \in FailureOps
            \/ stage = "report" /\ stage' = "input" /\ last'.op = "tryAnother"
         ]_vars

\* C4: when the selection has 3 entries, select(feature) with a symbol that
\* is not selected leaves the selection, the stage and the report unchanged
\* and sets the error to "Maximum 3 features allowed".
C4_FourthSelectRejected ==
    [][\A f \in Catalog :
          ( /\ Len(selectedFeatures) = 3
            /\ f.symbol \notin SymbolsOf(selectedFeatures)
            /\ handleFeatureSelect(f) )
          => /\ selectedFeatures' = selectedFeatures
             /\ stage' = stage
             /\ report' = report
             /\ error' = "Maximum 3 features allowed"
      ]_vars

\* A fourth, distinct feature was just refused.
C4_Witness ==
    /\ last.op = "select"
    /\ Len(selectedFeatures) = 3
    /\ last.symbol \notin SymbolsOf(selectedFeatures)
    /\ error = "Maximum 3 features allowed"

\* C5 (as claimed): for a selection of any length 1..3, select(feature) with
\* a symbol already selected leaves the selection unchanged and sets the
\* error to "Feature already selected".
C5_DuplicateAlwaysReported ==
    [][\A f \in Catalog :
          ( /\ f.symbol \in SymbolsOf(selectedFeatures)
            /\ handleFeatureSelect(f) )
          => /\ selectedFeatures' = selectedFeatures
             /\ error' = "Feature already selected"
      ]_vars

\* C5 (amended): select(feature) with a symbol already selected leaves the
\* selection unchanged; the error becomes "Feature already selected" when
\* the selection has 1 or 2 entries and "Maximum 3 features allowed" when it
\* has 3.
C5_DuplicateRejected ==
    [][\A f \in Catalog :
          ( /\ f.symbol \in SymbolsOf(selectedFeatures)
            /\ handleFeatureSelect(f) )
          => /\ selectedFeatures' = selectedFeatures
             /\ Len(selectedFeatures) \in {1, 2}
                   => error' = "Feature already selected"
             /\ Len(selectedFeatures) = 3
                   => error' = "Maximum 3 features allowed"
      ]_vars

\* A selected feature was just selected again, with room left.
C5_Witness ==
    /\ last.op = "select"
    /\ Len(selectedFeatures) = 2
    /\ last.symbol \in SymbolsOf(selectedFeatures)
    /\ error = "Feature already selected"

\* C6 (as claimed): the generate handler invoked with an empty selection
\* issues no request, leaves the stage at input, leaves the selection and
\* the report unchanged and sets "Please select at least one feature".
C6_EmptyGenerateAtInput ==
    [][( /\ Len(selectedFeatures) = 0
         /\ handleGenerateReport )
       => /\ requests' = requests
          /\ issued' = issued
          /\ stage' = "input"
          /\ selectedFeatures' = selectedFeatures
          /\ report' = report
          /\ error' = "Please select at least one feature"
      ]_vars

\* C6 (amended): the generate handler invoked with an empty selection
\* issues no request, leaves the stage as it was (at input when it was
\* input), leaves the selection and the report unchanged and sets
\* "Please select at least one feature".
C6_EmptyGenerateRejected ==
    [][( /\ Len(selectedFeatures) = 0
         /\ handleGenerateReport )
       => /\ requests' = requests
          /\ issued' = issued
          /\ stage' = stage
          /\ stage = "input" => stage' = "input"
          /\ selectedFeatures' = selectedFeatures
          /\ report' = report
          /\ error' = "Please select at least one feature"
      ]_vars

\* The generate handler was just refused on an empty selection.
C6_Witness ==
    /\ last.op = "generate"
    /\ ~last.accepted
    /\ selectedFeatures = << >>
    /\ stage = "input"
    /\ error = "Please select at least one feature"

\* C7: a resolution with HTTP ok and a body that parses to text t sets the
\* report to exactly t and the stage to report.
C7_SuccessStoresReport ==
    [][\A r \in requests, t \in ReportTexts :
          JsonResolves(r, t) => report' = t /\ stage' = "report"
      ]_vars

\* The body of the second request issued was just stored as the report.
C7_Witness ==
    /\ last.op = "jsonResolves"
    /\ last.id = 2
    /\ report = last.text
    /\ report = "Another report"
    /\ stage = "report"

\* C8: a resolution that fails (transport error, non-ok status, body that
\* does not parse) sets the stage to input and the error to "Failed to
\* generate report. Please try again.", and leaves the selection and the
\* stored report unchanged.
C8_FailureReturnsToInput ==
    [][\A r \in requests :
          FailsAt(r)
          => /\ stage' = "input"
             /\ error' = "Failed to generate report. Please try again."
             /\ selectedFeatures' = selectedFeatures
             /\ report' = report
      ]_vars

\* A request just failed on a non-ok status while an earlier report was
\* stored and a feature was selected.
C8_Witness ==
    /\ last.op = "fetchResponds"
    /\ ~last.ok
    /\ stage = "input"
    /\ error = "Failed to generate report. Please try again."
    /\ report # ""
    /\ selectedFeatures # << >>

\* C9: the number of requests issued equals the number of generate actions
\* accepted; a request is issued only by an accepted generate, one at a
\* time, so a failed request is never sent again by itself.
C9_OneRequestPerGenerate ==
    /\ [](issued = accepted)
    /\ [][ /\ issued' # issued
              => /\ issued' = issued + 1
                 /\ last'.op = "generate"
                 /\ last'.accepted
                 /\ clicks' = clicks + 1
           /\ IdsOf(requests') \ IdsOf(requests) # {}
              => /\ IdsOf(requests') \ IdsOf(requests) = {issued'}
                 /\ issued' = issued + 1
                 /\ last'.op = "generate"
         ]_vars

\* The only request issued has failed and nothing is in flight.
C9_Witness ==
    /\ last.op \in FailureOps
    /\ issued = 1
    /\ accepted = 1
    /\ requests = {}
    /\ error = "Failed to generate report. Please try again."

\* C10: try-another-selection is enabled only in stage report; it sets the
\* stage to input and leaves the selection, the report and the error
\* unchanged.
C10_TryAnotherKeepsState ==
    /\ [](ENABLED TryAnotherSelection => stage = "report")
    /\ [][TryAnotherSelection
            => /\ stage = "report"
               /\ stage' = "input"
               /\ selectedFeatures' = selectedFeatures
               /\ report' = report
               /\ error' = error
         ]_vars

\* Try-another-selection just ran with a selection, a report and an error
\* message in place.
C10_Witness ==
    /\ last.op = "tryAnother"
    /\ stage = "input"
    /\ selectedFeatures # << >>
    /\ report # ""
    /\ error = "Maximum 3 features allowed"

\* C11 (as claimed): for every reachable selection and every catalog symbol
\* s, remove(s) immediately followed by select of the feature with symbol s
\* succeeds: the feature is then the last entry and the error is cleared.
C11_ReselectAlwaysSucceeds ==
    [][\A f \in Catalog :
          ( /\ last.op = "remove"
            /\ last.symbol = f.symbol
            /\ handleFeatureSelect(f) )
          => /\ selectedFeatures' # << >>
             /\ selectedFeatures'[Len(selectedFeatures')] = f
             /\ error' = ""
      ]_vars

\* C11 (amended): for every reachable selection and every catalog symbol s
\* that is in the selection, or is absent from a selection of fewer than 3
\* entries, remove(s) immediately followed by select of the feature with
\* symbol s succeeds: s is absent after the removal, and the feature is then
\* appended as the last entry and the error is cleared.
C11_ReselectSucceeds ==
    /\ [](last.op = "remove"
            => /\ last.symbol \notin SymbolsOf(selectedFeatures)
               /\ last.found => Len(selectedFeatures) < 3)
    /\ [][\A f \in Catalog :
            ( /\ last.op = "remove"
              /\ last.symbol = f.symbol
              /\ last.found \/ Len(selectedFeatures) < 3
              /\ handleFeatureSelect(f) )
            => /\ Len(selectedFeatures') = Len(selectedFeatures) + 1
               /\ selectedFeatures'[Len(selectedFeatures')] = f
               /\ error' = ""
         ]_vars

\* A feature removed from a full selection was just selected again and is
\* the last entry.
C11_Witness ==
    /\ last.op = "select"
    /\ last.reselect
    /\ Len(selectedFeatures) = 3
    /\ selectedFeatures[3].symbol = last.symbol
    /\ error = ""

\* C12: while the stage is loading no user action (select, remove,
\* generate, try-another) changes the stage; the stage leaves loading only
\* in a step that ends a request (success or failure), and no user action
\* takes a request out of flight.
C12_LoadingLeftOnlyByResolution ==
    /\ [][(stage = "loading" /\ stage' # "loading")
            => /\ clicks' = clicks
               /\ last'.op \in FailureOps \cup {"jsonResolves"}
               /\ IdsOf(requests') # IdsOf(requests)
               /\ IdsOf(requests') \subseteq IdsOf(requests)
         ]_vars
    /\ [][clicks' # clicks
            => /\ requests \subseteq requests'
               /\ stage = "loading" => stage' = "loading"
         ]_vars

\* A chip was just clicked while a request was in flight: the stage is still
\* loading and the request is still there.
C12_Witness ==
    /\ last.op = "remove"
    /\ last.found
    /\ stage = "loading"
    /\ requests # {}

\* C13: with fewer than 3 entries and the symbol absent, select(feature)
\* appends the feature as the last entry, keeps the existing entries in
\* order, clears the error and leaves the stage and the report unchanged.
C13_SelectAppends ==
    [][\A f \in Catalog :
          ( /\ Len(selectedFeatures) < 3
            /\ f.symbol \notin SymbolsOf(selectedFeatures)
            /\ handleFeatureSelect(f) )
          => /\ Len(selectedFeatures') = Len(selectedFeatures) + 1
             /\ \A i \in 1..Len(selectedFeatures) :
                   selectedFeatures'[i] = selectedFeatures[i]
             /\ selectedFeatures'[Len(selectedFeatures')] = f
             /\ error' = ""
             /\ stage' = stage
             /\ report' = report
      ]_vars

\* A second feature was just appended by a call of the handler in stage
\* loading: the stage is still loading.
C13_Witness ==
    /\ last.op = "select"
    /\ ~last.reselect
    /\ Len(selectedFeatures) = 2
    /\ selectedFeatures[2].symbol = last.symbol
    /\ error = ""
    /\ stage = "loading"

\* C14: remove(symbol) yields the entries whose symbol differs, in their
\* original order; with the symbol absent the selection is unchanged; in
\* both cases the error is cleared and the stage and the report unchanged.
C14_RemoveFilters ==
    [][\A s \in Symbols :
          handleRemoveFeature(s)
          => /\ selectedFeatures' =
                   SelectSeq(selectedFeatures, LAMBDA f : f.symbol # s)
             /\ s \notin SymbolsOf(selectedFeatures)
                   => selectedFeatures' = selectedFeatures
             /\ s \in SymbolsOf(selectedFeatures)
                   => /\ Len(selectedFeatures') = Len(selectedFeatures) - 1
                      /\ s \notin SymbolsOf(selectedFeatures')
             /\ error' = ""
             /\ stage' = stage
             /\ report' = report
      ]_vars

\* An entry of the selection was just removed while the stage was report:
\* two entries are left, the report is kept.
C14_Witness ==
    /\ last.op = "remove"
    /\ last.found
    /\ Len(selectedFeatures) = 2
    /\ stage = "report"
    /\ report # ""
    /\ error = ""

\* The last step raised a validation or a generation error.
ErrorJustRaised ==
    \/ last.op = "select" /\ error \in {MsgMaximum, MsgDuplicate}
    \/ last.op = "generate" /\ ~last.accepted
    \/ last.op \in {"fetchRejects", "jsonRejects"}
    \/ last.op = "fetchResponds" /\ ~last.ok

\* C15: if every await eventually settles, the stage never stays loading:
\* it becomes input or report.  No reachable state is stuck: in stage
\* loading a request is in flight, in the other stages a control is
\* rendered and enabled; right after a validation or generation error the
\* stage is input and a tile is enabled.
C15_NeverStuck ==
    /\ (stage = "loading") ~> (stage \in {"input", "report"})
    /\ [](stage = "loading" => requests # {})
    /\ [](stage = "report" => ENABLED TryAnotherSelection)
    /\ [](stage = "input" => \E f \in Catalog : TileEnabled(f))
    /\ [](ErrorJustRaised
            => stage = "input" /\ \E f \in Catalog : TileEnabled(f))

\* A request just failed after the chips had emptied the selection: the
\* stage is back at input with every tile enabled.
C15_Witness ==
    /\ ErrorJustRaised
    /\ last.op = "jsonRejects"
    /\ selectedFeatures = << >>
    /\ stage = "input"
    /\ requests = {}
    /\ \A f \in Catalog : TileEnabled(f)

\* C16: the report is empty initially and changes only in a successful
\* resolution, which stores the text it returned; so the report is the
\* initial empty string or the text of the most recent successful
\* resolution, and in stage report it is a text some resolution returned.
C16_ReportOnlyFromSuccess ==
    /\ report = ""
    /\ [][report' # report
            => /\ last'.op = "jsonResolves"
               /\ report' = last'.text
               /\ clicks' = clicks
         ]_vars
    /\ [](last.op = "jsonResolves" => report = last.text)
    /\ [](report # "" => report \in ReportTexts /\ issued > 0)
    /\ [](stage = "report" => report \in ReportTexts)

\* Both requests issued have ended, the first one last and with success:
\* its text is the report.
C16_Witness ==
    /\ last.op = "jsonResolves"
    /\ last.id = 1
    /\ issued = 2
    /\ requests = {}
    /\ report = last.text
    /\ stage = "report"

\* `${f.name} (${f.symbol})` for one feature.
Item(f) == f.name \o " (" \o f.symbol \o ")"

\* The items of 1 to 3 features in order, joined by ", ".
ListedInOrder(fs) ==
    CASE Len(fs) = 1 -> Item(fs[1])
      [] Len(fs) = 2 -> Item(fs[1]) \o ", " \o Item(fs[2])
      [] Len(fs) = 3 -> Item(fs[1]) \o ", " \o Item(fs[2]) \o ", " \o Item(fs[3])

\* C17: every request in flight carries the prompt built from the selection
\* as it was when its generate was accepted: 1 to 3 features, pairwise
\* distinct, listed in selection order; nothing done afterwards (a removal
\* in particular) changes the features or the prompt of the request.
C17_PromptFromSnapshot ==
    /\ [](\A r \in requests :
             /\ Len(r.features) \in 1..3
             /\ NoDuplicateSymbols(r.features)
             /\ r.prompt = PromptHead \o ListedInOrder(r.features) \o PromptTail)
    /\ [][\A q \in requests' :
             q.id \notin IdsOf(requests) => q.features = selectedFeatures
         ]_vars
    /\ [][\A r \in requests, q \in requests' :
             q.id = r.id => q.features = r.features /\ q.prompt = r.prompt
         ]_vars

\* A request issued with three features is in flight and a chip was just
\* clicked: the selection is shorter, the request's list is not.
C17_Witness ==
    /\ last.op = "remove"
    /\ last.found
    /\ \E r \in requests :
          /\ Len(r.features) = 3
          /\ Len(selectedFeatures) < 3
          /\ r.prompt = PromptHead \o ListedInOrder(r.features) \o PromptTail

\* C18: with only the rendered and enabled controls, the error is unset,
\* empty, "Maximum 3 features allowed" or "Failed to generate report.
\* Please try again."; "Feature already selected" and "Please select at
\* least one feature" are never shown.
C18_ReachableMessages ==
    error \in { Null, "", "Maximum 3 features allowed",
                "Failed to generate report. Please try again." }

\* A fourth tile was just clicked after the only request had failed.
C18_Witness ==
    /\ last.op = "select"
    /\ error = "Maximum 3 features allowed"
    /\ issued = 1
    /\ requests = {}
    /\ report = ""
    /\ stage = "input"

\* C19: an accepted generate sets the stage to loading and issues one
\* request, leaving the selection, the error and the report unchanged; a
\* successful resolution leaves the selection and the error unchanged.
C19_GenerateKeepsErrorAndSelection ==
    /\ [][( /\ Len(selectedFeatures) > 0
            /\ handleGenerateReport )
          => /\ stage' = "loading"
             /\ Cardinality(IdsOf(requests') \ IdsOf(requests)) = 1
             /\ selectedFeatures' = selectedFeatures
             /\ error' = error
             /\ report' = report
         ]_vars
    /\ [][\A r \in requests, t \in ReportTexts :
             JsonResolves(r, t)
             => selectedFeatures' = selectedFeatures /\ error' = error
         ]_vars

\* The report just arrived and the message raised before the generate is
\* still set.
C19_Witness ==
    /\ last.op = "jsonResolves"
    /\ stage = "report"
    /\ error = "Maximum 3 features allowed"
    /\ Len(selectedFeatures) = 3

====
